---------------------------- MODULE Spec2Model ----------------------------
(***************************************************************************)
(* Request lifecycle and quota control of the trip planner backend         *)
(* (backend/main.py): the usage ledger (usage_tracking), the job registry  *)
(* (trip_progress, trip_results), the submission handler create_trip, the  *)
(* usage read get_usage, and the background run of one job (run_crew_async *)
(* on the event loop, run_crew_sync on its own thread).                    *)
(*                                                                         *)
(* Scheduling.  The handlers and run_crew_async are coroutines of one      *)
(* asyncio event loop: between two awaits a coroutine runs alone.  The     *)
(* variable owner names the coroutine that holds the loop in the middle of *)
(* such a segment; a coroutine step needs the loop to be free or its own.  *)
(* The pipeline thread (run_crew_sync) and the wall clock are not bound by *)
(* the loop and interleave with everything.                                *)
(***************************************************************************)
EXTENDS Integers, Sequences, FiniteSets, TLC

(***************************************************************************)
(* Bounds of the model.                                                    *)
(***************************************************************************)
\* Clock resolution: ticks per clock hour, and hours per calendar day.
TicksPerHour == 2
HoursPerDay == 24
\* The clock stops advancing after this many ticks past the start.
MaxTicks == 3
\* Concurrent submissions in flight.
MaxReq == 2
\* Size of the job registry in the full system and in the ledger runs.
MaxJobs == 1
\* The identifier collision run: identifiers uuid4 draws from, and admissions.
MaxIds == 1
MaxCreates == 2
\* Events of a progress stream that are recorded.
MaxEvents == 4
MaxAdmit == 11
\* Trips a day of every client but the first, in the ledger runs.
MaxOther == 1
\* The day run: clock hours before midnight at the start, and registry size.
DayHours == 6
MaxDayAdmit == 51
\* Chunks of one pipeline stream that report a completed task.
MaxCompleted == 3
\* Seconds of one run that the monitor loop samples, and the sampling step.
MaxElapsed == 120
ElapsedJump == 40

(***************************************************************************)
(* Program constants (backend/security_config.py).                         *)
(***************************************************************************)
MAX_TRIPS_PER_HOUR == 10
MAX_TRIPS_PER_DAY == 50
DAILY_COST_CAP_USD == 1000
ESTIMATED_COST_PER_TRIP == 5
\* "Update progress every 2 seconds" (run_crew_async).
UPDATE_INTERVAL == 2

Clients == {"c1", "c2"}
Reqs == 1..MaxReq
NoOwner == <<"none", 0>>

VARIABLES
    now,             \* datetime.now(), in ticks
    creds,           \* OPENAI_API_KEY and SERPER_API_KEY are both set
    usage_tracking,  \* client_id -> usage record (a dict: grows on first use)
    trip_progress,   \* trip_id -> progress record
    trip_results,    \* trip_id -> html payload
    run,             \* trip_id -> position of its background run and thread
    req,             \* the submissions in flight, one record per slot
    owner,           \* the coroutine in the middle of a segment, or NoOwner
    recent,          \* history: per client, admissions per tick of the last hour
    sse,             \* the event generator of one progress stream
    answer,          \* the last response of GET /api/trips/{trip_id}/result
    rate_limit_data, \* st.session_state.rate_limit_data of one Streamlit session
    admitted,        \* history: the times at which that session was admitted
    page             \* what the Streamlit page shows after the last submit

vars == <<now, creds, usage_tracking, trip_progress, trip_results, run,
          req, owner, recent, sse, answer, rate_limit_data, admitted, page>>

ledger == <<usage_tracking, recent>>
registry == <<trip_progress, trip_results, run>>
session == <<rate_limit_data, admitted, page>>

(***************************************************************************)
(* Time.                                                                   *)
(***************************************************************************)
TicksPerDay == TicksPerHour * HoursPerDay
\* The process starts one or two clock hours before midnight, so that a run
\* crosses an hour boundary with and without a day boundary.
StartTimes == {TicksPerDay - TicksPerHour, TicksPerDay - 2 * TicksPerHour}
EndTime == TicksPerDay - TicksPerHour + MaxTicks

HourStartOf(t) == t - (t % TicksPerHour)
DateOf(t) == t \div TicksPerDay


(***************************************************************************)
(* The usage ledger: check_rate_limits, update_usage, get_usage.           *)
(***************************************************************************)
\* The record a client gets on first use; last_trip_time None is <<>>.
NewUsage(t) ==
    [trips_today |-> 0, trips_this_hour |-> 0, daily_cost |-> 0,
     last_trip_time |-> <<>>, hour_start |-> HourStartOf(t)]

\* "if client_id not in usage_tracking: usage_tracking[client_id] = {...}"
WithClient(ut, c, t) ==
    IF c \in DOMAIN ut THEN ut
    ELSE [x \in DOMAIN ut \cup {c} |-> IF x = c THEN NewUsage(t) ELSE ut[x]]

\* "Reset hourly counter if new hour"
ResetHourSameDay(u, t) ==
    IF u.hour_start < HourStartOf(t) /\ DateOf(u.hour_start) = DateOf(t)
    THEN [u EXCEPT !.trips_this_hour = 0, !.hour_start = HourStartOf(t)]
    ELSE u
ResetHour(u, t) ==
    IF u.hour_start < HourStartOf(t)
    THEN [u EXCEPT !.trips_this_hour = 0, !.hour_start = HourStartOf(t)]
    ELSE u

\* "Reset daily counter if new day"
ResetDayCountOnly(u, t) ==
    IF u.last_trip_time # <<>> /\ DateOf(u.last_trip_time[1]) < DateOf(t)
    THEN [u EXCEPT !.trips_today = 0]
    ELSE u
ResetDayAlways(u, t) == [u EXCEPT !.trips_today = 0, !.daily_cost = 0]
ResetDay(u, t) ==
    IF u.last_trip_time # <<>> /\ DateOf(u.last_trip_time[1]) < DateOf(t)
    THEN [u EXCEPT !.trips_today = 0, !.daily_cost = 0]
    ELSE u

HourlyExceededOffByOne(u) == u.trips_this_hour > MAX_TRIPS_PER_HOUR
HourlyExceeded(u) == u.trips_this_hour >= MAX_TRIPS_PER_HOUR

DailyExceededOffByOne(u) == u.trips_today > MAX_TRIPS_PER_DAY
DailyExceeded(u) == u.trips_today >= MAX_TRIPS_PER_DAY

CostExceeded(u) == u.daily_cost + ESTIMATED_COST_PER_TRIP > DAILY_COST_CAP_USD

\* The caps in the order the code tests them; "ok" is (True, None).
DecisionDailyFirst(u) ==
    IF DailyExceeded(u) THEN "daily"
    ELSE IF HourlyExceeded(u) THEN "hourly"
    ELSE IF CostExceeded(u) THEN "cost"
    ELSE "ok"
Decision(u) ==
    IF HourlyExceeded(u) THEN "hourly"
    ELSE IF DailyExceeded(u) THEN "daily"
    ELSE IF CostExceeded(u) THEN "cost"
    ELSE "ok"

\* check_rate_limits(client_id) at clock value t: the ledger it leaves.
check_rate_limitsCounting(ut, c, t) ==
    LET ut1 == WithClient(ut, c, t)
    IN  [ut1 EXCEPT ![c] = [ResetHour(ut1[c], t) EXCEPT !.trips_this_hour = @ + 1]]
check_rate_limits(ut, c, t) ==
    LET ut1 == WithClient(ut, c, t)
    IN  [ut1 EXCEPT ![c] = ResetHour(ut1[c], t)]

\* update_usage(client_id) at clock value t.
update_usage(ut, c, t) ==
    LET ut1 == WithClient(ut, c, t)
        u   == ResetDay(ut1[c], t)
    IN  [ut1 EXCEPT ![c] =
            [u EXCEPT !.trips_today = u.trips_today + 1,
                      !.trips_this_hour = u.trips_this_hour + 1,
                      !.daily_cost = u.daily_cost + ESTIMATED_COST_PER_TRIP,
                      !.last_trip_time = <<t>>]]

\* get_usage(client_id) at clock value t: the ledger it leaves.
get_usageCounting(ut, c, t) == update_usage(ut, c, t)
get_usage(ut, c, t) ==
    LET ut1 == WithClient(ut, c, t)
        u   == ResetHour(ResetDay(ut1[c], t), t)
    IN  check_rate_limits([ut1 EXCEPT ![c] = u], c, t)

\* The UsageStats that get_usage(client_id) returns at clock value t: the
\* counters of the record it leaves and the verdict of check_rate_limits on
\* that record.
UsageStats(ut, c, t) ==
    LET u == get_usage(ut, c, t)[c]
    IN  [trips_today |-> u.trips_today, trips_this_hour |-> u.trips_this_hour,
         daily_cost |-> u.daily_cost, can_create_trip |-> Decision(u) = "ok"]

(***************************************************************************)
(* History of admissions, kept beside the ledger to state the claims.      *)
(***************************************************************************)
RECURSIVE SumSeq(_)
SumSeq(s) == IF s = <<>> THEN 0 ELSE Head(s) + SumSeq(Tail(s))

\* Admissions of client c decided within the last clock hour of wall time.
RollingAdmitted(c) == SumSeq(recent[c])

\* Admissions of client c decided in the clock hour that contains now:
\* those of the ticks from the start of the hour to now.
AdmittedInHour(c) == SumSeq(SubSeq(recent[c], 1, (now % TicksPerHour) + 1))

(***************************************************************************)
(* The job registry.                                                       *)
(***************************************************************************)
\* trip_progress[trip_id] as create_trip writes it.
InitialProgressStarted ==
    [status |-> "running", current_agent |-> "trip_researcher", current_step |-> 1,
     total_steps |-> 3, progress |-> 10, message |-> "starting"]
InitialProgress ==
    [status |-> "running", current_agent |-> "None", current_step |-> 0,
     total_steps |-> 3, progress |-> 0, message |-> "initializing"]

\* uuid4: an identifier no job of the registry has.
NewTripId == Cardinality(DOMAIN trip_progress) + 1

Extend(f, k, v) == [x \in DOMAIN f \cup {k} |-> IF x = k THEN v ELSE f[x]]

\* result_container["result"] is None, and a falsy pipeline result.
NoResult == [shape |-> "None", len |-> 0]

\* A background task that add_task has queued: run_crew_async has not begun,
\* no thread exists, result_container is not yet made.  kickoffs is the
\* number of executions of the external pipeline the job has started.
ScheduledRun ==
    [pc |-> "scheduled", thr |-> "none", idx |-> 0,
     elapsed |-> 0, last_update |-> 0,
     success |-> FALSE, error |-> FALSE, result |-> NoResult, kickoffs |-> 0]

(***************************************************************************)
(* create_trip.                                                            *)
(***************************************************************************)
Inputs == {"clean", "suspicious_destination", "suspicious_requirements"}

IdleReq == [pc |-> "idle", client |-> "c1", input |-> "clean", resp |-> "none"]

\* validate_input on the destination, then on the special requirements.
InputNeverRejected(inp) == FALSE
InputRejected(inp) == inp # "clean"

InFlight == {r \in Reqs : req[r].pc # "idle"}

\* The ledger runs follow one client up to its caps; the other clients stop
\* submitting once the ledger shows MaxOther trips of theirs today.
Submits(c) ==
    IF c = "c1" \/ c \notin DOMAIN usage_tracking THEN TRUE
    ELSE usage_tracking[c].trips_today < MaxOther

\* A submission reaches the server.  bound caps the size of the registry:
\* once it is reached, only submissions that validate_input rejects arrive.
Arrive(r, c, inp, bound) ==
    /\ req[r].pc = "idle"
    /\ ~InputRejected(inp) =>
          Cardinality(DOMAIN trip_progress) + Cardinality(InFlight) < bound
    /\ req' = [req EXCEPT ![r] = [IdleReq EXCEPT !.pc = "arrived",
                                                 !.client = c, !.input = inp]]
    /\ UNCHANGED <<now, creds, ledger, registry, owner, sse, answer, session>>

\* The coroutine create_trip holds the event loop from its first line to its
\* return: its body has no await.
CreateTripYields(r) == NoOwner
CreateTripOwner(r) == <<"create_trip", r>>

\* create_trip up to the admission check (the credential check, the input
\* check, get_client_id, check_rate_limits).
CT_Check(r) ==
    /\ owner = NoOwner
    /\ req[r].pc = "arrived"
    /\ LET c   == req[r].client
           ut1 == check_rate_limits(usage_tracking, c, now)
           d   == Decision(ut1[c])
       IN  IF ~creds
           THEN /\ req' = [req EXCEPT ![r].pc = "done", ![r].resp = "500"]
                /\ UNCHANGED <<usage_tracking, owner, recent>>
           ELSE IF InputRejected(req[r].input)
           THEN /\ req' = [req EXCEPT ![r].pc = "done", ![r].resp = "400"]
                /\ UNCHANGED <<usage_tracking, owner, recent>>
           ELSE IF d # "ok"
           THEN /\ req' = [req EXCEPT ![r].pc = "done", ![r].resp = "429_" \o d]
                /\ usage_tracking' = ut1
                /\ UNCHANGED <<owner, recent>>
           ELSE /\ req' = [req EXCEPT ![r].pc = "checked"]
                /\ usage_tracking' = ut1
                /\ owner' = CreateTripOwner(r)
                /\ recent' = [recent EXCEPT ![c][1] = @ + 1]
    /\ UNCHANGED <<now, creds, registry, sse, answer, session>>

\* create_trip from the new trip id to the response, when uuid4 returns id:
\* the registry entry, the background task, update_usage.
CT_AdmitAs(r, id) ==
    /\ req[r].pc = "checked"
    /\ owner = CreateTripOwner(r)
    /\ trip_progress' = Extend(trip_progress, id, InitialProgress)
    /\ run' = Extend(run, id, ScheduledRun)
    /\ usage_tracking' = update_usage(usage_tracking, req[r].client, now)
    /\ req' = [req EXCEPT ![r].pc = "done", ![r].resp = "200"]
    /\ owner' = NoOwner
    /\ UNCHANGED <<now, creds, trip_results, recent, sse, answer, session>>

\* The same with an identifier that no job has, as uuid4 all but surely gives.
CT_Admit(r) == CT_AdmitAs(r, NewTripId)

\* The client has read the response; the slot is free again.
Consume(r) ==
    /\ req[r].pc = "done"
    /\ req' = [req EXCEPT ![r] = IdleReq]
    /\ UNCHANGED <<now, creds, ledger, registry, owner, sse, answer, session>>

\* GET /api/usage/{client_id}
GetUsage(c) ==
    /\ owner = NoOwner
    /\ usage_tracking' = get_usage(usage_tracking, c, now)
    /\ UNCHANGED <<now, creds, registry, req, sse, answer, session, owner, recent>>

\* The history of the last hour, k ticks later.
Aged(s, k) ==
    IF k >= TicksPerHour THEN [i \in 1..TicksPerHour |-> 0]
    ELSE [i \in 1..TicksPerHour |-> IF i <= k THEN 0 ELSE s[i - k]]

\* Wall time advances by k ticks, up to the tick end.
Pass(k, end) ==
    /\ now + k <= end
    /\ now' = now + k
    /\ recent' = [c \in Clients |-> Aged(recent[c], k)]
    /\ UNCHANGED <<creds, usage_tracking, registry, req, sse, answer, session, owner>>

\* One tick passes; a whole clock hour passes.
Tick == Pass(1, EndTime)
TickHour == Pass(TicksPerHour, TicksPerDay)

(***************************************************************************)
(* run_crew_sync: the pipeline thread of one job.                          *)
(***************************************************************************)
\* task_agent_map: agent id, progress_start, progress_end of task i (0-based).
task_agent_map ==
    <<[agent |-> "trip_researcher", progress_start |-> 20, progress_end |-> 45],
      [agent |-> "trip_reviewer", progress_start |-> 45, progress_end |-> 70],
      [agent |-> "trip_planner", progress_start |-> 70, progress_end |-> 95]>>

\* "progress_start + int((progress_end - progress_start) * 0.5)"
StreamProgress(i) ==
    LET m == task_agent_map[i + 1]
    IN  m.progress_start + ((m.progress_end - m.progress_start) \div 2)

\* What crew.kickoff hands back: the shape of the result object and the
\* length of the text in it.
Results ==
    {NoResult} \cup [shape : {"tasks_output", "raw"}, len : {100, 101}]

\* crew.kickoff raises instead of returning.
Raised == [shape |-> "raised", len |-> 0]

\* How a call of the pipeline can end in an exception.
StreamErrors == {"TypeError", "Exception"}

\* The outer "except Exception" of run_crew_sync; current_task_idx dies with
\* the thread.
ThreadFailed(rn) ==
    [rn EXCEPT !.thr = "dead", !.idx = 0, !.error = TRUE, !.success = FALSE]

ThreadSucceeded(rn, res) ==
    [rn EXCEPT !.thr = "dead", !.idx = 0, !.result = res, !.success = TRUE]

\* One more execution of the pipeline is under way.
KickedOff(rn) == [rn EXCEPT !.kickoffs = @ + 1]

\* TripPlanner().crew() and crew.kickoff(inputs, stream=True): the stream of
\* a pipeline that runs as it is read, a TypeError for the keyword the
\* pipeline does not know (nothing has run), or another exception.
ThreadSetup(j, out) ==
    /\ j \in DOMAIN run
    /\ run[j].thr = "started"
    /\ run' = [run EXCEPT ![j] =
                 CASE out = "stream"    -> KickedOff([@ EXCEPT !.thr = "stream"])
                   [] out = "TypeError" -> [@ EXCEPT !.thr = "fallback"]
                   [] OTHER             -> ThreadFailed(@)]
    /\ UNCHANGED <<now, creds, ledger, trip_progress, trip_results, req, sse, answer, session,
                   owner>>

\* One chunk of the stream: the progress write of the current task, and the
\* step to the next task when the chunk reports a completed task.
ThreadChunk(j, complete) ==
    /\ j \in DOMAIN run
    /\ run[j].thr = "stream"
    /\ complete => run[j].idx < MaxCompleted
    /\ trip_progress' =
          IF run[j].idx < Len(task_agent_map)
          THEN [trip_progress EXCEPT ![j] =
                  [@ EXCEPT !.current_agent = task_agent_map[run[j].idx + 1].agent,
                            !.progress = StreamProgress(run[j].idx),
                            !.message = "working"]]
          ELSE trip_progress
    /\ run' = [run EXCEPT ![j].idx = IF complete THEN @ + 1 ELSE @]
    /\ UNCHANGED <<now, creds, ledger, trip_results, req, sse, answer, session, owner>>

\* The stream ends: by exhaustion (the final kickoff follows), by TypeError or
\* AttributeError (regular execution follows), or by another exception.
ThreadStreamEnd(j, out) ==
    /\ j \in DOMAIN run
    /\ run[j].thr = "stream"
    /\ run' = [run EXCEPT ![j] =
                 CASE out = "exhausted" -> [@ EXCEPT !.thr = "final", !.idx = 0]
                   [] out = "TypeError" -> [@ EXCEPT !.thr = "fallback", !.idx = 0]
                   [] OTHER             -> ThreadFailed(@)]
    /\ UNCHANGED <<now, creds, ledger, trip_progress, trip_results, req, sse, answer, session,
                   owner>>

\* crew.kickoff(inputs): after the stream ("final") or instead of it
\* ("fallback"); it returns a result or raises.
ThreadKickoff(j, out) ==
    /\ j \in DOMAIN run
    /\ run[j].thr \in {"final", "fallback"}
    /\ run' = [run EXCEPT ![j] =
                 IF out \in Results THEN ThreadSucceeded(KickedOff(@), out)
                 ELSE ThreadFailed(KickedOff(@))]
    /\ UNCHANGED <<now, creds, ledger, trip_progress, trip_results, req, sse, answer, session,
                   owner>>

(***************************************************************************)
(* run_crew_async: the background task of one job.                         *)
(***************************************************************************)
task_durations == <<40, 30, 50>>
task_names == <<"trip_researcher", "trip_reviewer", "trip_planner">>

\* sum(task_durations[:n])
RECURSIVE DurationsBefore(_)
DurationsBefore(n) == IF n = 0 THEN 0 ELSE DurationsBefore(n - 1) + task_durations[n]

\* The for-else over task_durations: the 0-based task that elapsed falls in.
CurrentTask(elapsed) ==
    IF \E i \in 1..Len(task_durations) : elapsed < DurationsBefore(i)
    THEN (CHOOSE i \in 1..Len(task_durations) :
             /\ elapsed < DurationsBefore(i)
             /\ \A k \in 1..(i - 1) : elapsed >= DurationsBefore(k)) - 1
    ELSE Len(task_durations) - 1

Min(a, b) == IF a < b THEN a ELSE b
Max(a, b) == IF a > b THEN a ELSE b

\* "min(95, base_progress + int(task_progress_pct * 33))"
OverallProgress(elapsed) ==
    LET ct           == CurrentTask(elapsed)
        duration     == task_durations[ct + 1]
        task_elapsed == Min(Max(0, elapsed - DurationsBefore(ct)), duration)
        base         == <<0, 33, 66>>[ct + 1]
    IN  Min(95, base + ((task_elapsed * 33) \div duration))

TickerMessage(step) ==
    CASE step = 1 -> "researching"
      [] step = 2 -> "reviewing"
      [] step = 3 -> "creating"
      [] OTHER    -> "working"

\* The values of time.time() - start_time the monitor loop may read next.
ElapsedNext(e) ==
    {x \in {1, ElapsedJump, 2 * ElapsedJump, 3 * ElapsedJump} :
        x > e /\ x <= MaxElapsed}

\* run_crew_async has returned: its locals are gone; the thread, which it
\* does not stop, is where it was.
Returned(rn) ==
    [ScheduledRun EXCEPT !.pc = "done", !.thr = rn.thr, !.kickoffs = rn.kickoffs]

\* "Update progress - Complete"
CompletedKeepsStatus(p) ==
    [p EXCEPT !.current_agent = "None", !.current_step = 3, !.total_steps = 3,
              !.progress = 100, !.message = "completed"]
Completed(p) ==
    [p EXCEPT !.status = "completed", !.current_agent = "None",
              !.current_step = 3, !.total_steps = 3,
              !.progress = 100, !.message = "completed"]

\* The "except Exception" of run_crew_async.
FailedAtStageZero(p) ==
    [p EXCEPT !.status = "error", !.message = "error", !.progress = 0,
              !.current_step = 0]
FailedSilently(p) == [p EXCEPT !.message = "error", !.progress = 0]
Failed(p) == [p EXCEPT !.status = "error", !.message = "error", !.progress = 0]

\* The monitor loop runs while crew_thread.is_alive().
MonitorTimesOut(j) == TRUE
MonitorOver(j) == run[j].thr = "dead"

\* run_crew_async holds the event loop from storing the result to marking
\* the job completed: there is no await between the two writes.
RunYields(j) == NoOwner
RunOwner(j) == <<"run_crew_async", j>>

\* From the start of the task to the first sleep: the credential check and
\* the write of 10.
RunStart(j) ==
    /\ owner = NoOwner
    /\ j \in DOMAIN run
    /\ run[j].pc = "scheduled"
    /\ IF ~creds
       THEN /\ trip_progress' = [trip_progress EXCEPT ![j] = Failed(@)]
            /\ run' = [run EXCEPT ![j] = Returned(@)]
       ELSE /\ trip_progress' = [trip_progress EXCEPT ![j] =
                  [@ EXCEPT !.current_agent = "trip_researcher",
                            !.current_step = 1, !.total_steps = 3,
                            !.progress = 10, !.message = "starting"]]
            /\ run' = [run EXCEPT ![j].pc = "sleep10"]
    /\ UNCHANGED <<now, creds, ledger, trip_results, req, sse, answer, session, owner>>

\* The write of 15, up to the second sleep.
RunResearch(j) ==
    /\ owner = NoOwner
    /\ j \in DOMAIN run
    /\ run[j].pc = "sleep10"
    /\ trip_progress' = [trip_progress EXCEPT ![j] =
          [@ EXCEPT !.current_agent = "trip_researcher",
                    !.current_step = 1, !.total_steps = 3,
                    !.progress = 15, !.message = "researching"]]
    /\ run' = [run EXCEPT ![j].pc = "sleep15"]
    /\ UNCHANGED <<now, creds, ledger, trip_results, req, sse, answer, session, owner>>

\* crew_thread.start() and the first pass of the monitor loop, which writes
\* nothing (no 2 seconds have passed).
RunStartThread(j) ==
    /\ owner = NoOwner
    /\ j \in DOMAIN run
    /\ run[j].pc = "sleep15"
    /\ run' = [run EXCEPT ![j].pc = "monitor", ![j].thr = "started"]
    /\ UNCHANGED <<now, creds, ledger, trip_progress, trip_results, req, sse, answer, session,
                   owner>>

\* "while crew_thread.is_alive()": the test finds the thread alive and a pass
\* of the loop begins.  The pass has no await, so no other coroutine runs
\* before its sleep; the thread does.
RunAlive(j) ==
    /\ owner = NoOwner
    /\ j \in DOMAIN run
    /\ run[j].pc = "monitor"
    /\ ~MonitorOver(j)
    /\ ElapsedNext(run[j].elapsed) # {}
    /\ run' = [run EXCEPT ![j].pc = "pass"]
    /\ owner' = RunOwner(j)
    /\ UNCHANGED <<now, creds, ledger, trip_progress, trip_results, req, sse, answer, session>>

\* The rest of the pass, at elapsed time e: the write when two seconds have
\* passed since the last one, up to the sleep.
RunTicker(j, e) ==
    /\ owner = RunOwner(j)
    /\ j \in DOMAIN run
    /\ run[j].pc = "pass"
    /\ owner' = NoOwner
    /\ IF e - run[j].last_update >= UPDATE_INTERVAL
       THEN /\ trip_progress' = [trip_progress EXCEPT ![j] =
                  [@ EXCEPT !.current_agent = task_names[CurrentTask(e) + 1],
                            !.current_step = CurrentTask(e) + 1,
                            !.total_steps = Len(task_names),
                            !.progress = OverallProgress(e),
                            !.message = TickerMessage(CurrentTask(e) + 1)]]
            /\ run' = [run EXCEPT ![j].elapsed = e, ![j].last_update = e,
                                  ![j].pc = "monitor"]
       ELSE /\ run' = [run EXCEPT ![j].elapsed = e, ![j].pc = "monitor"]
            /\ UNCHANGED trip_progress
    /\ UNCHANGED <<now, creds, ledger, trip_results, req, sse, answer, session>>

\* The loop ends: join, the success test, the write of 90, the third sleep.
RunJoin(j) ==
    /\ owner = NoOwner
    /\ j \in DOMAIN run
    /\ run[j].pc = "monitor"
    /\ MonitorOver(j)
    /\ IF ~run[j].success
       THEN /\ trip_progress' = [trip_progress EXCEPT ![j] = Failed(@)]
            /\ run' = [run EXCEPT ![j] = Returned(@)]
       ELSE /\ trip_progress' = [trip_progress EXCEPT ![j] =
                  [@ EXCEPT !.current_agent = "trip_planner",
                            !.current_step = 3, !.total_steps = 3,
                            !.progress = 90, !.message = "processing"]]
            /\ run' = [run EXCEPT ![j].pc = "sleep90", ![j].elapsed = 0,
                                  ![j].last_update = 0]
    /\ UNCHANGED <<now, creds, ledger, trip_results, req, sse, answer, session, owner>>

\* The length of html_content after the extraction from the result object;
\* 0 is None.
ExtractedLen(res) ==
    IF res = NoResult THEN 0
    ELSE IF res.shape = "tasks_output"
         THEN (IF res.len > 100 THEN res.len ELSE 0)
         ELSE res.len

\* "Fallback: Try reading from file if result extraction didn't work";
\* file is the length of output/trip_plan.html, 0 when there is no file.
WithFileFallback(len, file) == IF len < 100 /\ file > 0 THEN file ELSE len

FileLens == {0, 101}

\* "if html_content and len(html_content) > 100"
UsableFrom100(len) == len >= 100
Usable(len) == len > 100

\* After the third sleep: extraction, and either the store of the result or
\* the exception that fails the job.
RunExtract(j, file) ==
    /\ owner = NoOwner
    /\ j \in DOMAIN run
    /\ run[j].pc = "sleep90"
    /\ IF Usable(WithFileFallback(ExtractedLen(run[j].result), file))
       THEN /\ trip_results' = Extend(trip_results, j, "html")
            /\ run' = [run EXCEPT ![j].pc = "stored"]
            /\ owner' = RunOwner(j)
            /\ UNCHANGED trip_progress
       ELSE /\ trip_progress' = [trip_progress EXCEPT ![j] = Failed(@)]
            /\ run' = [run EXCEPT ![j] = Returned(@)]
            /\ UNCHANGED <<trip_results, owner>>
    /\ UNCHANGED <<now, creds, ledger, req, sse, answer, session>>

\* The write that marks the job completed, and the return.
RunComplete(j) ==
    /\ owner = RunOwner(j)
    /\ j \in DOMAIN run
    /\ run[j].pc = "stored"
    /\ trip_progress' = [trip_progress EXCEPT ![j] = Completed(@)]
    /\ run' = [run EXCEPT ![j] = Returned(@)]
    /\ owner' = NoOwner
    /\ UNCHANGED <<now, creds, ledger, trip_results, req, sse, answer, session>>

(***************************************************************************)
(* The Streamlit front end (src/app.py): check_rate_limit and record_trip   *)
(* on the rate_limit_data of one session.  Costs are in cents.             *)
(***************************************************************************)
APP_MAX_TRIPS_PER_HOUR == 5
APP_MAX_TRIPS_PER_DAY == 50
APP_MAX_TRIPS_PER_WEEK == 100
WEEKLY_COST_CAP_USD == 1000
APP_ESTIMATED_COST_PER_TRIP == 3
MAX_DURATION_DAYS == 30

\* datetime.weekday() of calendar day d, Monday being 0: day 0 is a Sunday,
\* so that the first midnight of a run opens a new week.
WeekdayOf(d) == (d + 6) % 7

\* "current_time.date() - timedelta(days=current_time.weekday())"
WeekStartOf(t) == DateOf(t) - WeekdayOf(DateOf(t))

\* The rate_limit_data a session gets on first use.
NewRateData(t) ==
    [trips |-> <<>>, weekly_cost |-> 0, last_reset |-> DateOf(t),
     week_start |-> WeekStartOf(t)]

\* "if 'rate_limit_data' not in st.session_state: ..."
WithRateData(rd, t) == IF rd = <<>> THEN NewRateData(t) ELSE rd[1]

\* "Reset weekly counters if it's a new week"
ResetWeek(d, t) ==
    IF d.week_start # WeekStartOf(t)
    THEN [d EXCEPT !.trips = <<>>, !.weekly_cost = 0,
                   !.week_start = WeekStartOf(t), !.last_reset = DateOf(t)]
    ELSE d

\* "Remove trips older than 1 week"
WithinWeek(d, t) ==
    LET keep(x) == x > t - 7 * TicksPerDay
    IN  [d EXCEPT !.trips = SelectSeq(d.trips, keep)]

\* check_rate_limit() at clock value t: the rate_limit_data it leaves.
check_rate_limit(rd, t) == WithinWeek(ResetWeek(WithRateData(rd, t), t), t)

\* The verdict of check_rate_limit on the data it leaves: the first cap
\* that is reached, or "ok".
AppDecision(d, t) ==
    LET last_hour(x) == x > t - TicksPerHour
        today(x)     == DateOf(x) = DateOf(t)
    IN  IF Len(SelectSeq(d.trips, last_hour)) >= APP_MAX_TRIPS_PER_HOUR
        THEN "hourly"
        ELSE IF Len(SelectSeq(d.trips, today)) >= APP_MAX_TRIPS_PER_DAY THEN "daily"
        ELSE IF Len(d.trips) >= APP_MAX_TRIPS_PER_WEEK THEN "weekly"
        ELSE IF d.weekly_cost + APP_ESTIMATED_COST_PER_TRIP > WEEKLY_COST_CAP_USD
        THEN "cost"
        ELSE "ok"

\* record_trip() at clock value t.
record_trip(d, t) ==
    [d EXCEPT !.trips = Append(@, t),
              !.weekly_cost = @ + APP_ESTIMATED_COST_PER_TRIP]

\* A duration text, by what the code reads in it: the numbers that
\* re.findall(r'\d+', ...) returns, whether it contains "week", and whether
\* it is the empty string.
NoDuration == [numbers |-> <<>>, week |-> FALSE, empty |-> TRUE]
DurationNumbers == {1, 3, 5, MAX_DURATION_DAYS + 1}
Durations ==
    {NoDuration} \cup
    [numbers : {<<>>} \cup {<<n>> : n \in DurationNumbers},
     week : BOOLEAN, empty : {FALSE}]

\* The fields of the form: destination and special requirements by class.
Forms ==
    [destination : {"clean", "too_long", "suspicious"},
     special_requirements : {"clean", "too_long"},
     duration : Durations]

\* The first number of the text, in days.
DaysOf(duration) ==
    IF duration.week THEN duration.numbers[1] * 7 ELSE duration.numbers[1]

\* validate_input(destination, duration, special_requirements) of app.py:
\* the errors it returns.
validate_form(f) ==
    (IF f.destination = "too_long" THEN {"destination_length"} ELSE {})
    \cup (IF f.destination = "suspicious" THEN {"invalid_characters"} ELSE {})
    \cup (IF f.duration.numbers # <<>> /\ DaysOf(f.duration) > MAX_DURATION_DAYS
          THEN {"duration_exceeds"} ELSE {})
    \cup (IF f.special_requirements = "too_long" THEN {"requirements_length"} ELSE {})

\* estimate_time(duration_str): min_time, max_time in seconds.
estimate_time(duration) ==
    IF duration.numbers # <<>>
    THEN LET days == DaysOf(duration)
         IN  IF days <= 2 THEN <<45, 75>>
             ELSE IF days <= 4 THEN <<60, 90>>
             ELSE IF days <= 7 THEN <<90, 120>>
             ELSE <<120, 150>>
    ELSE <<60, 90>>

\* The page before any submit, and after a submit of duration d.
StartPage == [stage |-> "start", duration |-> NoDuration, errors |-> {}, estimate |-> <<>>]
Refused(d, errors) == [stage |-> "form", duration |-> d, errors |-> errors, estimate |-> <<>>]
Planning(d) == [stage |-> "planning", duration |-> d, errors |-> {}, estimate |-> estimate_time(d)]

\* The form is submitted: the test for empty fields, the credentials,
\* validate_input, check_rate_limit, and, when all pass, record_trip and the
\* rerun that shows the estimate and starts the pipeline.
AppSubmit(f) ==
    /\ IF f.duration.empty
       THEN /\ page' = Refused(f.duration, {"fill_in"})
            /\ UNCHANGED <<rate_limit_data, admitted>>
       ELSE IF ~creds
       THEN /\ page' = Refused(f.duration, {"credentials"})
            /\ UNCHANGED <<rate_limit_data, admitted>>
       ELSE IF validate_form(f) # {}
       THEN /\ page' = Refused(f.duration, validate_form(f))
            /\ UNCHANGED <<rate_limit_data, admitted>>
       ELSE LET d == check_rate_limit(rate_limit_data, now)
            IN  IF AppDecision(d, now) = "ok"
                THEN /\ rate_limit_data' = <<record_trip(d, now)>>
                     /\ admitted' = Append(admitted, now)
                     /\ page' = Planning(f.duration)
                ELSE /\ rate_limit_data' = <<d>>
                     /\ page' = Refused(f.duration, {"rate_limit"})
                     /\ UNCHANGED admitted
    /\ UNCHANGED <<now, creds, ledger, registry, req, owner, sse, answer>>

(***************************************************************************)
(* get_result.                                                             *)
(***************************************************************************)
\* No request for a result has been answered yet.
NoAnswer == [trip_id |-> 0, status_code |-> "None", html_content |-> "None"]

\* The identifiers a client asks about: 0 is one that no job has.
AskedIds == 0..MaxJobs

HTTPException(id, code) ==
    [trip_id |-> id, status_code |-> code, html_content |-> "None"]

\* The response of get_result for trip_id = id.
get_resultByPayloadOnly(id) ==
    IF id \notin DOMAIN trip_results
    THEN HTTPException(id, "404")
    ELSE [trip_id |-> id, status_code |-> "200", html_content |-> trip_results[id]]
get_result(id) ==
    IF id \notin DOMAIN trip_results
    THEN IF id \in DOMAIN trip_progress
         THEN IF trip_progress[id].status = "running"
              THEN HTTPException(id, "202")
              ELSE IF trip_progress[id].status = "error"
              THEN HTTPException(id, "500")
              ELSE HTTPException(id, "404")
         ELSE HTTPException(id, "404")
    ELSE [trip_id |-> id, status_code |-> "200", html_content |-> trip_results[id]]

\* GET /api/trips/{trip_id}/result: a coroutine without an await.
GetResult(id) ==
    /\ owner = NoOwner
    /\ answer' = get_result(id)
    /\ UNCHANGED <<now, creds, ledger, registry, req, owner, sse, session>>

(***************************************************************************)
(* stream_progress: the event generator of one SSE stream.                 *)
(***************************************************************************)
\* The generator before the first request for an event.  events is what it
\* has sent so far, by kind: "connected", "not_found", or the status of a
\* snapshot; a run of "running" snapshots is kept as one, and the record
\* stops at MaxEvents events.
IdleStream ==
    [pc |-> "idle", trip_id |-> 0, current_status |-> "None",
     current_agent |-> "None", last_progress |-> <<>>, last_agent |-> "None",
     consecutive_same_updates |-> 0, events |-> <<>>]

\* The identifiers a stream is opened on: that of the first job, and one
\* that no job gets.
StreamIds == {0, 1}

Sent(events, kind) ==
    IF kind = "running" /\ events # <<>> /\ events[Len(events)] = "running"
    THEN events
    ELSE IF Len(events) >= MaxEvents THEN events
    ELSE Append(events, kind)

\* "yield ... {'error': 'Trip not found'}"
NotFoundUnsent(events) == events
NotFound(events) == Sent(events, "not_found")

\* A dict (or None) compared with a number: never equal.
DictEqualsNumber(d, n) == FALSE

\* "progress_changed": last_progress, a copy of the record or None, is
\* compared with the progress number; the other two tests follow.
ProgressChanged(last_progress, last_agent, cur) ==
    \/ ~DictEqualsNumber(last_progress, cur.progress)
    \/ last_agent # cur.current_agent
    \/ cur.message # (IF last_progress # <<>> THEN last_progress[1].message ELSE "None")

\* "if current_status in ["completed", "error"]"
IsFinalRunningToo(status) == TRUE
IsFinalErrorOnly(status) == status = "error"
IsFinal(status) == status \in {"completed", "error"}

\* GET /api/trips/{trip_id}/progress/stream: the generator runs to its first
\* yield, the connection message.
Subscribe(id) ==
    /\ owner = NoOwner
    /\ sse.pc = "idle"
    /\ sse' = [sse EXCEPT !.pc = "connected", !.trip_id = id,
                          !.events = Sent(@, "connected")]
    /\ UNCHANGED <<now, creds, ledger, registry, req, owner, answer, session>>

\* From the head of the loop to the next yield or to the sleep.
StreamLoop ==
    /\ owner = NoOwner
    /\ sse.pc \in {"connected", "sleeping"}
    /\ IF sse.trip_id \notin DOMAIN trip_progress
       THEN sse' = [sse EXCEPT !.pc = "yielded_error",
                               !.events = NotFound(@)]
       ELSE LET cur == trip_progress[sse.trip_id]
            IN  IF \/ ProgressChanged(sse.last_progress, sse.last_agent, cur)
                   \/ cur.status = "running"
                THEN sse' = [sse EXCEPT !.pc = "yielded",
                                        !.current_status = cur.status,
                                        !.current_agent = cur.current_agent,
                                        !.events = Sent(@, cur.status)]
                ELSE IF sse.consecutive_same_updates + 1 >= 3
                THEN sse' = [sse EXCEPT !.pc = "yielded_periodic",
                                        !.consecutive_same_updates = 0,
                                        !.events = Sent(@, cur.status)]
                ELSE sse' = [sse EXCEPT !.pc = "sleeping",
                                        !.consecutive_same_updates = @ + 1]
    /\ UNCHANGED <<now, creds, ledger, registry, req, owner, answer, session>>

\* After the yield of a snapshot: the bookkeeping, and the final update of a
\* terminal job, which dumps the record as it is by then.
StreamResume ==
    /\ owner = NoOwner
    /\ sse.pc \in {"yielded", "yielded_periodic"}
    /\ IF sse.pc = "yielded_periodic"
       THEN sse' = [sse EXCEPT !.pc = "sleeping"]
       ELSE LET kept == [sse EXCEPT !.last_progress = <<trip_progress[sse.trip_id]>>,
                                    !.last_agent = sse.current_agent,
                                    !.consecutive_same_updates = 0]
            IN  IF IsFinal(sse.current_status)
                THEN sse' = [kept EXCEPT !.pc = "yielded_final",
                                 !.events = Sent(@, trip_progress[sse.trip_id].status)]
                ELSE sse' = [kept EXCEPT !.pc = "sleeping"]
    /\ UNCHANGED <<now, creds, ledger, registry, req, owner, answer, session>>

\* "break": the generator returns and the response ends.
StreamClose ==
    /\ owner = NoOwner
    /\ sse.pc \in {"yielded_final", "yielded_error"}
    /\ sse' = [sse EXCEPT !.pc = "closed"]
    /\ UNCHANGED <<now, creds, ledger, registry, req, owner, answer, session>>

StreamStep == StreamLoop \/ StreamResume \/ StreamClose

(***************************************************************************)
(* Specifications.                                                         *)
(***************************************************************************)
Boot(starts) ==
    /\ now \in starts
    /\ creds \in BOOLEAN
    /\ usage_tracking = <<>>
    /\ trip_progress = <<>>
    /\ trip_results = <<>>
    /\ run = <<>>
    /\ req = [r \in Reqs |-> IdleReq]
    /\ owner = NoOwner
    /\ recent = [c \in Clients |-> [k \in 1..TicksPerHour |-> 0]]
    /\ sse = IdleStream
    /\ answer = NoAnswer
    /\ rate_limit_data = <<>>
    /\ admitted = <<>>
    /\ page = StartPage

Init == Boot({TicksPerDay - TicksPerHour})

\* One submission at a time, by any client.
Handle ==
    \/ CT_Check(1)
    \/ CT_Admit(1)
    \/ Consume(1)

\* The ledger under a stream of submissions and usage reads, over two clock
\* hours; the background runs of the admitted jobs have not started yet.
InitQuota == Boot(StartTimes)

NextQuota ==
    \/ \E c \in Clients, inp \in Inputs : Submits(c) /\ Arrive(1, c, inp, MaxAdmit)
    \/ Handle
    \/ \E c \in Clients : GetUsage(c)
    \/ Tick

SpecQuota == InitQuota /\ [][NextQuota]_vars

\* Concurrent valid submissions of one client, from the last clock hour of
\* a day.
NextRace ==
    \/ \E r \in Reqs : Arrive(r, "c1", "clean", MaxAdmit)
    \/ \E r \in Reqs : CT_Check(r)
    \/ \E r \in Reqs : CT_Admit(r)
    \/ \E r \in Reqs : Consume(r)
    \/ GetUsage("c1")
    \/ Tick

SpecRace == Init /\ [][NextRace]_vars

\* One client whose submissions are valid or not, one at a time, from the
\* last clock hour of a day, on a server with or without its credentials.
NextGuards ==
    \/ \E inp \in Inputs : Arrive(1, "c1", inp, MaxAdmit)
    \/ Handle
    \/ Tick

SpecGuards == Init /\ [][NextGuards]_vars

\* One Streamlit session that submits valid forms, from the last clock hour
\* of a Sunday into the Monday.
NextApp ==
    \/ \E f \in Forms : AppSubmit(f)
    \/ Tick

SpecApp == Init /\ [][NextApp]_vars

\* One client through a day, from DayHours clock hours before midnight to
\* the first hour of the next day, hour by hour.
InitDay == Boot({TicksPerDay - DayHours * TicksPerHour})

NextDay ==
    \/ Arrive(1, "c1", "clean", MaxDayAdmit)
    \/ Handle
    \/ GetUsage("c1")
    \/ TickHour

SpecDay == InitDay /\ [][NextDay]_vars

\* One client through the same day, with submissions of every kind, after
\* the trips of another client: the submissions that create_trip refuses.
OtherFirst(c) == c # "c1" /\ "c1" \notin DOMAIN usage_tracking /\ Submits(c)

NextRefuse ==
    \/ \E inp \in Inputs : Arrive(1, "c1", inp, MaxDayAdmit + MaxOther)
    \/ \E c \in Clients : OtherFirst(c) /\ Arrive(1, c, "clean", MaxOther + 1)
    \/ Handle
    \/ TickHour

SpecRefuse == InitDay /\ [][NextRefuse]_vars

\* The job lifecycle: submissions and the background runs they start.
Submission ==
    \/ \E inp \in Inputs : Arrive(1, "c1", inp, MaxJobs)
    \/ Handle

ThreadStep(j) ==
    \/ \E out \in {"stream"} \cup StreamErrors : ThreadSetup(j, out)
    \/ \E complete \in BOOLEAN : ThreadChunk(j, complete)
    \/ \E out \in {"exhausted"} \cup StreamErrors : ThreadStreamEnd(j, out)
    \/ \E out \in Results \cup {Raised} : ThreadKickoff(j, out)

RunStep(j) ==
    \/ RunStart(j)
    \/ RunResearch(j)
    \/ RunStartThread(j)
    \/ RunAlive(j)
    \/ \E e \in ElapsedNext(run[j].elapsed) : RunTicker(j, e)
    \/ RunJoin(j)
    \/ \E file \in FileLens : RunExtract(j, file)
    \/ RunComplete(j)

Next ==
    \/ Submission
    \/ \E j \in DOMAIN run : ThreadStep(j)
    \/ \E j \in DOMAIN run : RunStep(j)

Spec == Init /\ [][Next]_vars


\* The same under the scheduling the program has.  A coroutine that holds
\* the event loop runs to its next await, and a background task that can run
\* is run (weak fairness of the steps of create_trip and run_crew_async).
\* The pipeline call returns or raises: the thread leaves each of its calls
\* (setup, the stream, kickoff), however many chunks the stream yields.
ThreadReturns(j) ==
    \/ \E out \in {"stream"} \cup StreamErrors : ThreadSetup(j, out)
    \/ \E out \in {"exhausted"} \cup StreamErrors : ThreadStreamEnd(j, out)
    \/ \E out \in Results \cup {Raised} : ThreadKickoff(j, out)

RunProceeds(j) == j \in DOMAIN run /\ RunStep(j)

\* Some step of these is taken when one stays possible.  The event loop and
\* the threads give each of them this fairness separately; with finitely
\* many jobs the fairness of their union, which it implies, is enough.
Proceeds ==
    \/ CT_Admit(1)
    \/ \E j \in 1..MaxJobs : RunProceeds(j) \/ ThreadReturns(j)

Fairness == WF_vars(Proceeds)

\* Termination is stated over the run of one valid submission: the runs of
\* different jobs share nothing but the event loop, which none of them keeps.
NextLive ==
    \/ Arrive(1, "c1", "clean", 1)
    \/ Handle
    \/ \E j \in DOMAIN run : ThreadStep(j)
    \/ \E j \in DOMAIN run : RunStep(j)

LiveSpec == Init /\ [][NextLive]_vars /\ Fairness

\* The runs of valid submissions with a client that asks for results at any
\* time.
NextResult ==
    \/ NextLive
    \/ \E id \in AskedIds : GetResult(id)

SpecResult == Init /\ [][NextResult]_vars

\* The job lifecycle when uuid4 draws from a small set, so that a new
\* identifier can be one the registry already has.  The model keeps one
\* background run per identifier: a collision is followed here only when the
\* run of the earlier job has returned and its thread is gone.
TripIds == 1..MaxIds

RunIsOver(id) ==
    id \in DOMAIN run => run[id].pc = "done" /\ run[id].thr \in {"none", "dead"}

Created == IF "c1" \in DOMAIN usage_tracking THEN usage_tracking["c1"].trips_today ELSE 0

NextIds ==
    \/ Created < MaxCreates /\ Arrive(1, "c1", "clean", MaxIds + MaxCreates)
    \/ CT_Check(1)
    \/ \E id \in TripIds : RunIsOver(id) /\ CT_AdmitAs(1, id)
    \/ Consume(1)
    \/ \E j \in DOMAIN run : ThreadStep(j)
    \/ \E j \in DOMAIN run : RunStep(j)

SpecIds == Init /\ [][NextIds]_vars

\* The ledger beside the background runs: two valid submissions of one
\* client, the second after the run of the first has returned, their runs,
\* usage reads, and the clock over the midnight that ends the hour, the day
\* and the week.  The Streamlit front end is a program of its own, with its
\* own limiter: a behaviour follows the server or one Streamlit session.
\* A form that validate_input accepts.
ValidForm ==
    [destination |-> "clean", special_requirements |-> "clean",
     duration |-> [numbers |-> <<3>>, week |-> FALSE, empty |-> FALSE]]

BackendIdle ==
    /\ usage_tracking = <<>> /\ trip_progress = <<>>
    /\ \A r \in Reqs : req[r].pc = "idle"
AppIdle == rate_limit_data = <<>> /\ page = StartPage

NextRefund ==
    \/ /\ AppIdle /\ \A j \in DOMAIN run : RunIsOver(j)
       /\ Arrive(1, "c1", "clean", 2)
    \/ Handle
    \/ \E j \in DOMAIN run : ThreadStep(j)
    \/ \E j \in DOMAIN run : RunStep(j)
    \/ AppIdle /\ GetUsage("c1")
    \/ BackendIdle /\ AppSubmit(ValidForm)
    \/ Tick

SpecRefund == Init /\ [][NextRefund]_vars

\* One progress stream beside the lifecycle of one job: it is opened at any
\* moment, on the job or on an identifier that no job has, and is read to
\* its end.  The generator reads no record but that of its own trip_id.
NextStream ==
    \/ Arrive(1, "c1", "clean", 1)
    \/ Handle
    \/ \E j \in DOMAIN run : ThreadStep(j)
    \/ \E j \in DOMAIN run : RunStep(j)
    \/ \E id \in StreamIds : Subscribe(id)
    \/ StreamLoop
    \/ StreamResume
    \/ StreamClose

SpecStream == Init /\ [][NextStream]_vars

\* The client keeps reading the stream, and the jobs proceed as in LiveSpec.
LiveStream == SpecStream /\ WF_vars(Proceeds) /\ WF_vars(StreamStep)

(***************************************************************************)
(* The hourly cap (C1), concurrent submissions (C2), the caps as ledger    *)
(* invariants (C4).                                                        *)
(***************************************************************************)
\* A step in which create_trip answers the submission of slot r, made with
\* credentials and a clean input, so that the answer is decided by the caps.
QuotaDecides(r) ==
    /\ req[r].pc = "arrived"
    /\ req'[r].pc # "arrived"
    /\ creds
    /\ ~InputRejected(req[r].input)

\* C1: for every client, once MAX_TRIPS_PER_HOUR of its submissions have been
\* admitted within one rolling hour, its next submission within that hour is
\* rejected with 429 naming the hourly cap, whatever the daily and cost
\* headroom.
C1_RollingHourCap ==
    [][\A r \in Reqs :
          (QuotaDecides(r) /\ RollingAdmitted(req[r].client) >= MAX_TRIPS_PER_HOUR)
              => req'[r].resp = "429_hourly"]_vars

Checked(c) == {r \in Reqs : req[r].pc = "checked" /\ req[r].client = c}

\* No submission is between its check and its record while another one is
\* checked or recorded; every admission of the current clock hour is in the
\* counter (none lost); no more than the cap are admitted in a clock hour.
NoRace ==
    /\ Cardinality({r \in Reqs : req[r].pc = "checked"}) <= 1
    /\ \A c \in DOMAIN usage_tracking :
          /\ AdmittedInHour(c) <= MAX_TRIPS_PER_HOUR
          /\ usage_tracking[c].hour_start = HourStartOf(now) =>
                usage_tracking[c].trips_this_hour + Cardinality(Checked(c))
                    = AdmittedInHour(c)

\* A submission the caps decide is admitted while the clock hour has headroom
\* and is rejected on the hourly cap only when it has none.
HeadroomDecides ==
    \A r \in Reqs :
        QuotaDecides(r) =>
            /\ req'[r].resp = "429_hourly"
                  => AdmittedInHour(req[r].client) = MAX_TRIPS_PER_HOUR
            /\ req'[r].pc = "checked"
                  => AdmittedInHour(req[r].client) < MAX_TRIPS_PER_HOUR

\* C2: of K concurrent submissions of one client with hourly headroom h < K,
\* exactly h are admitted and the rest rejected: the check and the record of
\* one submission never interleave with those of another, no increment is
\* lost and the cap is never overshot.
C2_ConcurrentSubmissions == []NoRace /\ [][HeadroomDecides]_vars

\* Two submissions of the client are in flight with one unit of hourly
\* headroom: one has passed its check, the other has not been looked at.
C2_Witness ==
    \E r1, r2 \in Reqs :
        /\ req[r1].pc = "checked" /\ req[r2].pc = "arrived"
        /\ req[r1].client = req[r2].client
        /\ ~InputRejected(req[r2].input)
        /\ usage_tracking[req[r1].client].trips_this_hour = MAX_TRIPS_PER_HOUR - 1

\* C4: in every reachable state and for every client, trips_this_hour,
\* trips_today and daily_cost are at most their caps.
C4_CountersWithinCaps ==
    \A c \in DOMAIN usage_tracking :
        /\ usage_tracking[c].trips_this_hour <= MAX_TRIPS_PER_HOUR
        /\ usage_tracking[c].trips_today <= MAX_TRIPS_PER_DAY
        /\ usage_tracking[c].daily_cost <= DAILY_COST_CAP_USD

\* A client at its daily cap who has been turned away on it, with its hourly
\* counter at the cap as well.
C4_Witness ==
    \E c \in DOMAIN usage_tracking :
        /\ usage_tracking[c].trips_today = MAX_TRIPS_PER_DAY
        /\ usage_tracking[c].trips_this_hour = MAX_TRIPS_PER_HOUR
        /\ \E r \in Reqs : req[r].client = c /\ req[r].resp = "429_hourly"

(***************************************************************************)
(* Progress of a job (C5, C6, C7), what a terminal job holds (C8, C9),     *)
(* and termination (C10).                                                  *)
(***************************************************************************)
Jobs == DOMAIN trip_progress
Running(j) == trip_progress[j].status = "running"
Terminal(j) == trip_progress[j].status \in {"completed", "error"}

\* The result payload of a job is its entry of trip_results; its error
\* description is the message the exception handler writes.
HasResult(j) == j \in DOMAIN trip_results
HasError(j) == trip_progress[j].message = "error"

\* C5: for any job, the progress percentages readable from the registry from
\* creation until the job becomes terminal never decrease, across all writers.
C5_ProgressNeverDecreases ==
    [][\A j \in Jobs :
          (Running(j) /\ trip_progress'[j].status = "running")
              => trip_progress'[j].progress >= trip_progress[j].progress]_vars

\* C6: in every reachable state and for every job, progress is within 0..100,
\* and it is 100 exactly when the status is completed.
C6_ProgressRange ==
    \A j \in Jobs :
        /\ trip_progress[j].progress \in 0..100
        /\ trip_progress[j].progress = 100 <=> trip_progress[j].status = "completed"

\* A job that has completed and reports 100.
C6_Witness ==
    \E j \in Jobs :
        /\ trip_progress[j].status = "completed"
        /\ trip_progress[j].progress = 100

\* C7: when a job goes from running to error its progress keeps the last
\* value it had while running; when it goes to completed it becomes 100.
C7_ErrorKeepsProgress ==
    [][\A j \in Jobs :
          /\ (Running(j) /\ trip_progress'[j].status = "error")
                => trip_progress'[j].progress = trip_progress[j].progress
          /\ (Running(j) /\ trip_progress'[j].status = "completed")
                => trip_progress'[j].progress = 100]_vars

C10_EveryJobEnds ==
    \A j \in 1..MaxJobs : (j \in Jobs) ~> (j \in Jobs /\ Terminal(j))

\* A job that failed after its first progress write: its thread is dead and
\* its background task has returned.
C10_Witness ==
    \E j \in Jobs :
        /\ trip_progress[j].status = "error"
        /\ trip_progress[j].current_step >= 1
        /\ run[j].pc = "done" /\ run[j].thr = "dead"

(***************************************************************************)
(* Window rollover (C11, C12) and the order of the caps (C13).             *)
(***************************************************************************)
\* The record of client c shows a last trip on a calendar day before today.
LastTripBeforeToday(c) ==
    /\ c \in DOMAIN usage_tracking
    /\ usage_tracking[c].last_trip_time # <<>>
    /\ DateOf(usage_tracking[c].last_trip_time[1]) < DateOf(now)

\* C11: an admission check made on a calendar day after the client's last
\* recorded trip reads daily counters that were reset to zero first, so the
\* submission is admitted (the hour is new as well): in particular a client
\* that ended a day at the daily cap is admitted the next day.
C11_DailyResetBeforeCheck ==
    [][\A r \in Reqs :
          (QuotaDecides(r) /\ LastTripBeforeToday(req[r].client))
              => req'[r].pc = "checked"]_vars

\* The record of client c shows a last trip in a clock hour before this one.
LastTripBeforeThisHour(c) ==
    /\ c \in DOMAIN usage_tracking
    /\ usage_tracking[c].last_trip_time # <<>>
    /\ HourStartOf(usage_tracking[c].last_trip_time[1]) < HourStartOf(now)

\* A step that is the admission check of a submission of client c, or a
\* usage read of client c.
ChecksOrReads(c) ==
    \/ \E r \in Reqs : QuotaDecides(r) /\ req[r].client = c
    \/ GetUsage(c)

\* C12: a record whose last admitted request lies in a previous clock hour
\* shows an hourly count of zero after the next admission check or usage
\* read, whether or not the day changed too, and hour_start never decreases.
C12_HourlyRollover ==
    [][\A c \in DOMAIN usage_tracking :
          /\ usage_tracking'[c].hour_start >= usage_tracking[c].hour_start
          /\ (ChecksOrReads(c) /\ LastTripBeforeThisHour(c))
                => /\ usage_tracking'[c].trips_this_hour = 0
                   /\ usage_tracking'[c].hour_start = HourStartOf(now)]_vars

\* After midnight, a record with trips on the day before has been checked or
\* read: its hourly count is zero and its anchor is the current hour, while
\* the stale daily count is still there.
C12_Witness ==
    \E c \in DOMAIN usage_tracking :
        /\ LastTripBeforeThisHour(c) /\ LastTripBeforeToday(c)
        /\ usage_tracking[c].trips_this_hour = 0
        /\ usage_tracking[c].hour_start = HourStartOf(now)
        /\ usage_tracking[c].trips_today > 0

\* The caps that client c has reached at this moment, from the stored record:
\* the hourly count counts when its anchor is the current hour.
HourlyAtCap(c) ==
    /\ c \in DOMAIN usage_tracking
    /\ usage_tracking[c].hour_start = HourStartOf(now)
    /\ usage_tracking[c].trips_this_hour >= MAX_TRIPS_PER_HOUR
DailyAtCap(c) ==
    /\ c \in DOMAIN usage_tracking
    /\ usage_tracking[c].trips_today >= MAX_TRIPS_PER_DAY
CostAtCap(c) ==
    /\ c \in DOMAIN usage_tracking
    /\ usage_tracking[c].daily_cost + ESTIMATED_COST_PER_TRIP > DAILY_COST_CAP_USD

\* C13: the rejection of a submission names exactly one cap, the first one
\* reached in the order hourly, daily, cost: the hourly cap whenever it is
\* reached, the daily cap when it is reached and the hourly one is not, the
\* cost cap only when neither count cap is reached.
C13_FirstExceededCap ==
    [][\A r \in Reqs :
          QuotaDecides(r) =>
              LET c == req[r].client
              IN  /\ req'[r].pc = "checked" \/
                        req'[r].resp \in {"429_hourly", "429_daily", "429_cost"}
                  /\ HourlyAtCap(c) <=> req'[r].resp = "429_hourly"
                  /\ (~HourlyAtCap(c) /\ DailyAtCap(c)) <=> req'[r].resp = "429_daily"
                  /\ (~HourlyAtCap(c) /\ ~DailyAtCap(c) /\ CostAtCap(c))
                        <=> req'[r].resp = "429_cost"]_vars

\* A submission was turned away on the hourly cap while the client, still on
\* the day and in the hour of its last trip, had reached the daily cap too.
C13_Witness ==
    \E r \in Reqs :
        /\ req[r].pc = "done" /\ req[r].resp = "429_hourly"
        /\ HourlyAtCap(req[r].client) /\ DailyAtCap(req[r].client)
        /\ ~LastTripBeforeThisHour(req[r].client)

(***************************************************************************)
(* Identifier collisions (C14) and failed runs (C15).                      *)
(***************************************************************************)
\* A step in which create_trip finishes the admission of slot r.
Admits(r) == req[r].pc = "checked" /\ req'[r].pc = "done"

\* C14: creating a job under an identifier the registry already has leaves
\* the record of the existing job (status, progress, result) unchanged, and
\* the creation fails instead of answering 200.
C14_NoOverwrite ==
    [][\A r \in Reqs :
          Admits(r) =>
              /\ \A j \in Jobs : trip_progress'[j] = trip_progress[j]
              /\ req'[r].resp = "200" => DOMAIN trip_progress' # DOMAIN trip_progress]_vars

\* The background task of job j moves on from position pc.
Leaves(j, pc) == run[j].pc = pc /\ run'[j].pc # pc

FailsNow(j) == trip_progress'[j].status = "error" /\ trip_progress'[j].message = "error"

StreamOpen == sse.pc \notin {"idle", "closed"}
StreamOnJob == sse.trip_id \in Jobs
LastSent == IF sse.events = <<>> THEN "None" ELSE sse.events[Len(sse.events)]

\* The stream has just been opened (only the connection message is out) on
\* a job that is completed.
OpenedOnCompleted ==
    /\ sse.pc = "connected" /\ StreamOnJob
    /\ trip_progress[sse.trip_id].status = "completed"

\* C16: a stream opened on a job that is already completed sends the
\* completed snapshot and then closes, rather than waiting for a change.
C16_StreamOnCompletedJob ==
    OpenedOnCompleted
        ~> (sse.pc = "closed" /\ sse.events = <<"connected", "completed", "completed">>)

\* A stream that saw nothing but a completed job, read to its end.
C16_Witness ==
    /\ sse.pc = "closed"
    /\ sse.events = <<"connected", "completed", "completed">>

\* The stream is at the head of its loop and its identifier is unknown.
AtLoopOnUnknown ==
    /\ sse.pc \in {"connected", "sleeping"}
    /\ sse'.pc # sse.pc
    /\ sse.trip_id \notin DOMAIN trip_progress

\* C17: a stream opened on an unknown identifier sends exactly one error
\* event, no progress snapshot, and then closes.
C17_StreamOnUnknownJob ==
    /\ [][/\ AtLoopOnUnknown =>
               /\ sse'.pc = "yielded_error"
               /\ sse'.events = <<"connected", "not_found">>
          /\ sse.pc = "yielded_error" =>
               /\ sse'.pc \in {"yielded_error", "closed"}
               /\ sse'.events = sse.events]_vars
    /\ (sse.pc = "yielded_error") ~> (sse.pc = "closed" /\ LastSent = "not_found")

\* A stream on an identifier no job ever had, read to its end.
C17_Witness ==
    /\ sse.pc = "closed" /\ sse.trip_id \notin DOMAIN trip_progress
    /\ sse.events = <<"connected", "not_found">>

\* A closed stream on a known job ended on a snapshot of the job's terminal
\* status.
ClosedOnTerminal ==
    (sse.pc = "closed" /\ LastSent # "not_found") =>
        /\ StreamOnJob /\ Terminal(sse.trip_id)
        /\ LastSent = trip_progress[sse.trip_id].status

\* C18: a stream open on a job (one that has not already answered that the
\* identifier is unknown) that becomes completed or failed eventually
\* sends a snapshot with that status and then ends; it never ends before
\* such a snapshot (unless the identifier is unknown), and sends nothing
\* once ended.
C18_StreamEndsOnTerminal ==
    /\ []ClosedOnTerminal
    /\ [][sse.pc = "closed" => sse' = sse]_vars
    /\ (StreamOpen /\ sse.pc # "yielded_error" /\ StreamOnJob /\ Terminal(sse.trip_id))
          ~> (/\ sse.pc = "closed" /\ StreamOnJob
              /\ LastSent = trip_progress[sse.trip_id].status)

\* A stream that was open while its job ran and failed, read to its end.
C18_Witness ==
    /\ sse.pc = "closed"
    /\ sse.events = <<"connected", "running", "error", "error">>

(***************************************************************************)
(* The result endpoint (C19).                                              *)
(***************************************************************************)
StatusOf(id) == IF id \in Jobs THEN trip_progress[id].status ELSE "unknown"

Guards(r) == req[r].pc = "arrived" /\ req'[r].pc # "arrived"

Suspicious(r) == req[r].input \in {"suspicious_destination", "suspicious_requirements"}
OverQuota(c) == HourlyAtCap(c) \/ DailyAtCap(c) \/ CostAtCap(c)

\* C20: create_trip tests the credentials, then the input, then the quota,
\* and the first test that fails alone decides the response: 500 without
\* credentials whatever the input and the quota, else 400 on a suspicious
\* input whatever the quota, else 429 over the quota, else the submission
\* goes on.  A submission refused before the quota test leaves the ledger
\* untouched.
C20_GuardOrder ==
    [][\A r \in Reqs :
          Guards(r) =>
              LET c == req[r].client
              IN  /\ ~creds <=> req'[r].resp = "500"
                  /\ (creds /\ Suspicious(r)) <=> req'[r].resp = "400"
                  /\ (creds /\ ~Suspicious(r) /\ OverQuota(c))
                        <=> req'[r].resp \in {"429_hourly", "429_daily", "429_cost"}
                  /\ (creds /\ ~Suspicious(r) /\ ~OverQuota(c))
                        <=> req'[r].pc = "checked"
                  /\ req'[r].resp \in {"500", "400"} =>
                        usage_tracking' = usage_tracking]_vars

\* A suspicious submission was refused with 400 while its client was over
\* the hourly cap.
C20_Witness ==
    \E r \in Reqs :
        /\ req[r].pc = "done" /\ req[r].resp = "400"
        /\ creds /\ Suspicious(r) /\ HourlyAtCap(req[r].client)


(***************************************************************************)
(* The response of create_trip and the background run (C21).               *)
(***************************************************************************)
\* C21: when create_trip answers with success, the new job is in the
\* registry as running, at stage 0 and progress 0, and its background run
\* has not begun (no pipeline thread exists); no background run moves while
\* create_trip is between its admission check and its response.
C21_RespondsBeforeRun ==
    [][\A r \in Reqs :
          /\ (Admits(r) /\ req'[r].resp = "200") =>
                \E id \in DOMAIN trip_progress' \ DOMAIN trip_progress :
                    /\ trip_progress'[id].status = "running"
                    /\ trip_progress'[id].current_step = 0
                    /\ trip_progress'[id].progress = 0
                    /\ run'[id].pc = "scheduled" /\ run'[id].thr = "none"
                    /\ \A j \in DOMAIN run : run'[j] = run[j]
          /\ owner = CreateTripOwner(r) =>
                \A j \in DOMAIN run : run'[j].pc = run[j].pc]_vars

\* create_trip has answered 200 and the run of the new job has not begun.
C21_Witness ==
    \E r \in Reqs :
        /\ req[r].pc = "done" /\ req[r].resp = "200"
        /\ \E j \in Jobs : run[j].pc = "scheduled" /\ trip_progress[j] = InitialProgress


(***************************************************************************)
(* The usage read (C22, C23).                                              *)
(***************************************************************************)
\* The counters of client c as the ledger ut shows them: a client without a
\* record has none.
CountersOf(ut, c) ==
    IF c \in DOMAIN ut
    THEN <<ut[c].trips_today, ut[c].trips_this_hour, ut[c].daily_cost>>
    ELSE <<0, 0, 0>>

\* C22: a usage read of client c always returns statistics, touches no other
\* client's record, increases no count and no cost, changes a counter only
\* by setting it to zero when its window has rolled over (the day of the
\* last trip is past, the hour anchor is a past hour), and a second read at
\* the same clock value returns the same statistics and leaves the same
\* ledger.
C22_UsageReadOnlyRollsOver ==
    [][\A c \in Clients :
          GetUsage(c) =>
              LET old == CountersOf(usage_tracking, c)
                  new == CountersOf(usage_tracking', c)
              IN  /\ c \in DOMAIN usage_tracking'
                  /\ \A x \in DOMAIN usage_tracking \ {c} :
                        usage_tracking'[x] = usage_tracking[x]
                  /\ DOMAIN usage_tracking' = DOMAIN usage_tracking \cup {c}
                  /\ \A i \in 1..3 : new[i] = old[i] \/ (new[i] = 0 /\ old[i] > 0)
                  /\ (new[1] # old[1] \/ new[3] # old[3]) => LastTripBeforeToday(c)
                  /\ new[2] # old[2] =>
                        usage_tracking[c].hour_start < HourStartOf(now)
                  /\ c \in DOMAIN usage_tracking =>
                        usage_tracking'[c].last_trip_time
                            = usage_tracking[c].last_trip_time
                  /\ get_usage(usage_tracking', c, now) = usage_tracking'
                  /\ UsageStats(usage_tracking', c, now)
                        = UsageStats(usage_tracking, c, now)]_vars

\* A usage read has reset the daily counters of a client whose last trip was
\* on the day before: only get_usage leaves such a record.
C22_Witness ==
    \E c \in DOMAIN usage_tracking :
        /\ LastTripBeforeToday(c)
        /\ usage_tracking[c].trips_today = 0
        /\ usage_tracking[c].daily_cost = 0
        /\ usage_tracking[c].hour_start = HourStartOf(now)


\* C23: the can_create_trip flag that a usage read returns is the decision
\* that the admission check of create_trip makes for the same client on the
\* same ledger at the same clock value.
C23_UsageFlagIsAdmission ==
    [][\A c \in Clients :
          GetUsage(c) =>
              (UsageStats(usage_tracking, c, now).can_create_trip
                  <=> Decision(check_rate_limits(usage_tracking, c, now)[c]) = "ok")]_vars


AdmittedLastHour ==
    Cardinality({i \in DOMAIN admitted : admitted[i] > now - TicksPerHour})

\* C25: the submissions of a session admitted within any trailing one-hour
\* span never exceed the hourly cap of the front end, also across the start
\* of a week.
C25_AppRollingHourCap == AdmittedLastHour <= APP_MAX_TRIPS_PER_HOUR


(***************************************************************************)
(* The duration text (C26).                                                *)
(***************************************************************************)
\* C26: a submitted duration text without a digit is refused with an
\* "unparseable duration" error: it never passes validation and never gets
\* the default estimate.
C26_NoDigitsRejected ==
    (page.stage # "start" /\ ~page.duration.empty /\ page.duration.numbers = <<>> /\ creds)
        => (page.stage = "form" /\ "unparseable_duration" \in page.errors)


(***************************************************************************)
(* Writers of a job record (C27) and the end of the ticker (C28).          *)
(***************************************************************************)
\* The pipeline thread of job j is in its stream loop, where each chunk
\* writes the progress fields of the record.
ThreadWrites(j) == run[j].thr = "stream" /\ run[j].idx < Len(task_agent_map)

\* run_crew_async of job j is in its monitor loop, where each pass that
\* comes two seconds after the last one writes the progress fields.
TickerWrites(j) == run[j].pc = "pass"

\* C27: a job record has one writer at a time: the monitor loop and the
\* pipeline thread are never both at a point where they write the progress
\* fields of the same record.
C27_SingleWriter == \A j \in DOMAIN run : ~(ThreadWrites(j) /\ TickerWrites(j))


\* A step that changes the record of job j.
WritesRecord(j) == trip_progress'[j] # trip_progress[j]

\* A step in which the monitor loop of job j writes its progress update.
TickerWriteStep(j) ==
    run[j].pc = "pass" /\ run'[j].pc = "monitor" /\ WritesRecord(j)

\* run_crew_async of job j has left the monitor loop.
Finalizing(j) == run[j].pc \in {"sleep90", "stored", "done"}

\* The order of the writes of one job: no pass of the monitor loop follows
\* its end, the thread is gone when the finalization begins, the run ends on
\* a terminal record, and nothing writes a terminal record.
FinalWritesLast(j) ==
    /\ Finalizing(j) =>
          /\ run'[j].pc \in {"sleep90", "stored", "done"}
          /\ run[j].thr = "dead"
    /\ run'[j].pc = "done" =>
          \/ trip_progress'[j].status = "completed" /\ trip_progress'[j].progress = 100
          \/ trip_progress'[j].status = "error"
    /\ Terminal(j) => ~WritesRecord(j)

Refusals == {"500", "400", "429_hourly", "429_daily", "429_cost"}

\* The hourly window of client c has rolled over: its anchor is a past hour.
HourRolledOver(c) ==
    c \in DOMAIN usage_tracking /\ usage_tracking[c].hour_start < HourStartOf(now)

\* C30: a step in which create_trip refuses a submission (500, 400 or 429)
\* leaves the registry of jobs, the stored payloads and the background runs
\* as they were, adds no client to the ledger, and leaves every client's
\* trips_today, trips_this_hour and daily_cost as they were, except that the
\* trips_this_hour of the submitting client is zero afterwards when a 429
\* was answered and its hourly window had rolled over.
C30_RefusalLeavesNoTrace ==
    [][\A r \in Reqs :
          (Guards(r) /\ req'[r].resp \in Refusals) =>
              /\ UNCHANGED registry
              /\ DOMAIN usage_tracking' = DOMAIN usage_tracking
              /\ \A c \in Clients :
                    CountersOf(usage_tracking', c) =
                        IF /\ c = req[r].client /\ HourRolledOver(c)
                           /\ req'[r].resp \notin {"500", "400"}
                        THEN <<usage_tracking[c].trips_today, 0,
                               usage_tracking[c].daily_cost>>
                        ELSE CountersOf(usage_tracking, c)]_vars

\* A submission has been refused with 429 on the daily cap in a clock hour
\* in which its client had no trip yet: the hourly count was set to zero,
\* beside the record of another client.
C30_Witness ==
    \E r \in Reqs :
        /\ req[r].pc = "done" /\ req[r].resp = "429_daily"
        /\ LET u == usage_tracking[req[r].client]
           IN  /\ u.trips_this_hour = 0 /\ u.hour_start = HourStartOf(now)
               /\ u.trips_today >= MAX_TRIPS_PER_DAY
               /\ u.last_trip_time # <<>> /\ u.last_trip_time[1] < HourStartOf(now)
        /\ DOMAIN usage_tracking # {req[r].client}


(***************************************************************************)
(* What an admitted submission adds (C31).                                 *)
(***************************************************************************)
\* The ledger ut as client c's record alone does not show it.
OtherRecords(ut, c) == [x \in DOMAIN ut \ {c} |-> ut[x]]

\* C31: a step in which create_trip admits a submission and answers 200
\* adds exactly one job record and exactly one scheduled background run,
\* leaves the records, payloads and runs of all other jobs as they were,
\* raises trips_today and trips_this_hour of the submitting client by one
\* and its daily_cost by ESTIMATED_COST_PER_TRIP, and leaves the usage
\* records of all other clients as they were.
C31_AdmissionAddsOne ==
    [][\A r \in Reqs :
          (Admits(r) /\ req'[r].resp = "200") =>
              LET c   == req[r].client
                  was == CountersOf(usage_tracking, c)
              IN  /\ Cardinality(DOMAIN trip_progress' \ DOMAIN trip_progress) = 1
                  /\ \A j \in DOMAIN trip_progress :
                        trip_progress'[j] = trip_progress[j]
                  /\ trip_results' = trip_results
                  /\ Cardinality(DOMAIN run' \ DOMAIN run) = 1
                  /\ \A j \in DOMAIN run' \ DOMAIN run : run'[j] = ScheduledRun
                  /\ \A j \in DOMAIN run : run'[j] = run[j]
                  /\ CountersOf(usage_tracking', c) =
                        <<was[1] + 1, was[2] + 1, was[3] + ESTIMATED_COST_PER_TRIP>>
                  /\ OtherRecords(usage_tracking', c) = OtherRecords(usage_tracking, c)]_vars


(***************************************************************************)
(* Quota is not refunded (C32).                                            *)
(***************************************************************************)
\* The step is the end of an admission by create_trip.
AdmitsNow == \E r \in Reqs : Admits(r)

\* The step is one of a background run or of its pipeline thread, the end
\* of a job in error included.
RunMoves ==
    \E j \in DOMAIN run : run'[j] # run[j] \/ trip_progress'[j] # trip_progress[j]

\* C32: no client's record leaves the ledger; trips_today and daily_cost of
\* a client get smaller only when the day of its last trip is past, and are
\* then zero, or one trip's worth when the step is an admission;
\* trips_this_hour gets smaller only when its anchor is a past hour, and is
\* then zero; no step of a background run or of its thread, the end of a
\* job in error included, changes the ledger.  In the Streamlit session the
\* list of recorded trips and weekly_cost get smaller only when a new week
\* has begun, and then hold at most the trip admitted in that step.
C32_NoRefund ==
    [][/\ \A c \in DOMAIN usage_tracking :
             /\ c \in DOMAIN usage_tracking'
             /\ LET u == usage_tracking[c]
                    v == usage_tracking'[c]
                    n == IF AdmitsNow THEN 1 ELSE 0
                IN  /\ v.trips_today < u.trips_today =>
                          LastTripBeforeToday(c) /\ v.trips_today = n
                    /\ v.daily_cost < u.daily_cost =>
                          /\ LastTripBeforeToday(c)
                          /\ v.daily_cost = n * ESTIMATED_COST_PER_TRIP
                    /\ v.trips_this_hour < u.trips_this_hour =>
                          HourRolledOver(c) /\ v.trips_this_hour = 0
       /\ RunMoves /\ ~AdmitsNow =>
             usage_tracking' = usage_tracking /\ rate_limit_data' = rate_limit_data
       /\ rate_limit_data # <<>> =>
             /\ rate_limit_data' # <<>>
             /\ LET d == rate_limit_data[1]
                    e == rate_limit_data'[1]
                    n == Len(admitted') - Len(admitted)
                IN  (Len(e.trips) < Len(d.trips) \/ e.weekly_cost < d.weekly_cost) =>
                        /\ d.week_start # WeekStartOf(now)
                        /\ Len(e.trips) = n
                        /\ e.weekly_cost = n * APP_ESTIMATED_COST_PER_TRIP]_vars

\* A job has ended in error after the midnight, its client's record still
\* shows the trip and its cost, and an earlier usage read or admission check
\* has set the hourly count of the new hour to zero.
C32_Witness ==
    \E j \in Jobs :
        /\ trip_progress[j].status = "error" /\ run[j].pc = "done"
        /\ LastTripBeforeToday("c1")
        /\ usage_tracking["c1"].trips_today >= 1
        /\ usage_tracking["c1"].daily_cost >= ESTIMATED_COST_PER_TRIP
        /\ usage_tracking["c1"].trips_this_hour = 0


(***************************************************************************)
(* The cost follows the daily count (C33).                                 *)
(***************************************************************************)
\* C33: with the constants of the server (a full day of trips costs no more
\* than the daily cost cap), in every reachable state the daily_cost of
\* every client is ESTIMATED_COST_PER_TRIP times its trips_today, the cost
\* cap is not reached, and no submission has been answered 429 on the cost
\* cap: a 429 names the hourly or the daily cap.
C33_CostFollowsTrips ==
    /\ MAX_TRIPS_PER_DAY * ESTIMATED_COST_PER_TRIP <= DAILY_COST_CAP_USD
    /\ \A c \in DOMAIN usage_tracking :
          /\ usage_tracking[c].daily_cost =
                ESTIMATED_COST_PER_TRIP * usage_tracking[c].trips_today
          /\ ~CostExceeded(usage_tracking[c])
    /\ \A r \in Reqs : req[r].resp # "429_cost"

\* A submission has been turned away on the daily cap, in an hour whose own
\* cap is not reached, from a client whose cost is that of a full day of
\* trips.
C33_Witness ==
    \E r \in Reqs :
        /\ req[r].pc = "done" /\ req[r].resp = "429_daily"
        /\ LET u == usage_tracking[req[r].client]
           IN  /\ u.daily_cost = MAX_TRIPS_PER_DAY * ESTIMATED_COST_PER_TRIP
               /\ u.trips_this_hour < MAX_TRIPS_PER_HOUR


(***************************************************************************)
(* The snapshot of a running job (C34).                                    *)
(***************************************************************************)
\* The agent that goes with stage k of a job: none before the first stage.
AgentOfStage(k) == IF k = 0 THEN "None" ELSE task_agent_map[k].agent

\* C34: whenever a handler can read the registry, the record of every
\* running job names the agent of its stage: no agent at current_step 0,
\* and at current_step k (1..3) the agent of stage k.
C34_SnapshotConsistent ==
    owner = NoOwner =>
        \A j \in Jobs :
            Running(j) =>
                /\ trip_progress[j].current_step \in 0..3
                /\ trip_progress[j].current_agent =
                      AgentOfStage(trip_progress[j].current_step)


(***************************************************************************)
(* Executions of the pipeline per job (C35).                               *)
(***************************************************************************)
\* C35: no job has started more than one execution of the external
\* pipeline, whatever the path of run_crew_sync.
C35_OneKickoffPerJob == \A j \in DOMAIN run : run[j].kickoffs <= 1

=============================================================================
